---- MODULE Spec2Model ----
(***************************************************************************)
(* SkyShield air-quality monitor: the two regional programs of the         *)
(* repository, src/final.py (North America, region "NA") and               *)
(* src/unnamed/part_000 (Indonesia, region "ID").                          *)
(*                                                                         *)
(* Numbers. The programs compute with floats; the model computes with      *)
(* exact fixed-point numbers, Scale units to 1.0.  Scale is chosen so that *)
(* every constant of the source (tenths), every slope of aqi_to_pm25       *)
(* (x/49, x/50, 0.5) and the factor 1.15 are exact on inputs given in      *)
(* tenths.  Strings are ASCII: "ug/m3" stands for the source's micro-gram  *)
(* per cubic metre tag, "mg/m3" likewise.                                  *)
(***************************************************************************)
EXTENDS Integers, Sequences, FiniteSets, TLC

VARIABLES
    region,             \* which program runs: "NA" (final.py) or "ID" (part_000)
    threshold_table,    \* the dict that the global HEALTH_THRESHOLDS is bound to
    pc,                 \* position of the main thread and of the update thread
    monitoring_active,  \* global flag
    run_count,          \* global counter
    current_data,       \* global: reference to the published list
    weather_data,       \* global dict of final.py (its keys)
    heap,               \* the live list objects: reference -> contents
    next_id,            \* next fresh list reference
    frame,              \* locals of perform_update / collect_*, per thread
    cycle,              \* history of the cycle in progress (which adapters ran, ...)
    complete,           \* history: the lists whose collection has returned
    fn_call,            \* a call of a pure function (function harness)
    fn_ret              \* what it returned

vars == << region, threshold_table, pc, monitoring_active, run_count, current_data, weather_data,
           heap, next_id, frame, cycle, complete, fn_call, fn_ret >>

----------------------------------------------------------------------------
(* Fixed-point numbers *)

Scale == 49 * 5000

Num(n) == n * Scale

\* t tenths: Tenths(121) is 12.1
Tenths(t) == t * (Scale \div 10)

Regions == {"NA", "ID"}

----------------------------------------------------------------------------
(* HEALTH_THRESHOLDS *)

HEALTH_THRESHOLDS_NA ==
    [ PM2_5 |-> [GOOD |-> Tenths(120), MODERATE |-> Tenths(354), BAD |-> Tenths(554),
                 UNITS |-> "ug/m3",
                 GOOD_DESC |-> "Good - healthy air quality",
                 MODERATE_DESC |-> "Moderate - acceptable air quality",
                 BAD_DESC |-> "Unhealthy for sensitive groups"],
      NO2   |-> [GOOD |-> Num(40), MODERATE |-> Num(100), BAD |-> Num(200),
                 UNITS |-> "ppb",
                 GOOD_DESC |-> "Good - low vehicle pollution",
                 MODERATE_DESC |-> "Moderate - medium NO2 levels",
                 BAD_DESC |-> "Unhealthy - high nitrogen dioxide"],
      O3    |-> [GOOD |-> Num(50), MODERATE |-> Num(70), BAD |-> Num(85),
                 UNITS |-> "ppb",
                 GOOD_DESC |-> "Good - low ozone levels",
                 MODERATE_DESC |-> "Moderate - increased ozone",
                 BAD_DESC |-> "Unhealthy - high ozone levels"],
      CO2   |-> [GOOD |-> Num(450), MODERATE |-> Num(600), BAD |-> Num(1000),
                 UNITS |-> "ppm",
                 GOOD_DESC |-> "Excellent - fresh outdoor air",
                 MODERATE_DESC |-> "Moderate - typical urban levels",
                 BAD_DESC |-> "Poor - elevated CO2 levels"] ]

HEALTH_THRESHOLDS_ID ==
    [ PM2_5 |-> [GOOD |-> Num(15), MODERATE |-> Num(35), BAD |-> Num(55),
                 UNITS |-> "ug/m3",
                 GOOD_DESC |-> "Good - healthy air quality",
                 MODERATE_DESC |-> "Moderate - acceptable air quality",
                 BAD_DESC |-> "Unhealthy - sensitive groups affected"],
      PM10  |-> [GOOD |-> Num(50), MODERATE |-> Num(100), BAD |-> Num(250),
                 UNITS |-> "ug/m3",
                 GOOD_DESC |-> "Good - healthy air quality",
                 MODERATE_DESC |-> "Moderate - acceptable air quality",
                 BAD_DESC |-> "Unhealthy - sensitive groups affected"],
      NO2   |-> [GOOD |-> Num(80), MODERATE |-> Num(150), BAD |-> Num(400),
                 UNITS |-> "ug/m3",
                 GOOD_DESC |-> "Good - low vehicle pollution",
                 MODERATE_DESC |-> "Moderate - medium vehicle pollution",
                 BAD_DESC |-> "Unhealthy - high vehicle pollution"],
      O3    |-> [GOOD |-> Num(80), MODERATE |-> Num(120), BAD |-> Num(180),
                 UNITS |-> "ug/m3",
                 GOOD_DESC |-> "Good - low ozone levels",
                 MODERATE_DESC |-> "Moderate - increased ozone",
                 BAD_DESC |-> "Unhealthy - high ozone levels"],
      SO2   |-> [GOOD |-> Num(50), MODERATE |-> Num(100), BAD |-> Num(300),
                 UNITS |-> "ug/m3",
                 GOOD_DESC |-> "Good - low industrial pollution",
                 MODERATE_DESC |-> "Moderate - medium industrial pollution",
                 BAD_DESC |-> "Unhealthy - high industrial pollution"],
      CO    |-> [GOOD |-> Num(2), MODERATE |-> Num(5), BAD |-> Num(10),
                 UNITS |-> "mg/m3",
                 GOOD_DESC |-> "Good - clean combustion",
                 MODERATE_DESC |-> "Moderate - incomplete combustion",
                 BAD_DESC |-> "Unhealthy - poor combustion"] ]

\* a variant whose tables have MODERATE equal to GOOD
load_thresholds_flat(r) ==
    LET table == IF r = "NA" THEN HEALTH_THRESHOLDS_NA ELSE HEALTH_THRESHOLDS_ID
    IN  [p \in DOMAIN table |-> [table[p] EXCEPT !.MODERATE = table[p].GOOD]]

\* `HEALTH_THRESHOLDS = {...}`, executed once when the module is loaded
load_thresholds(r) == IF r = "NA" THEN HEALTH_THRESHOLDS_NA ELSE HEALTH_THRESHOLDS_ID

\* the global HEALTH_THRESHOLDS as program r reads it: the program that runs
\* reads the dict it holds
HEALTH_THRESHOLDS(r) == IF r = region THEN threshold_table ELSE load_thresholds(r)

----------------------------------------------------------------------------
(* get_health_rating: the same text in both programs, over the program's   *)
(* own table.  The result is the triple (rating, indicator, description).  *)

get_health_rating_strict(r, pollutant_type, value) ==
    IF pollutant_type \notin DOMAIN HEALTH_THRESHOLDS(r)
    THEN << "UNKNOWN", "[?]", "No rating available" >>
    ELSE LET thresholds == HEALTH_THRESHOLDS(r)[pollutant_type]
         IN  IF value < thresholds.GOOD
             THEN << "GOOD", "[G]", thresholds.GOOD_DESC >>
             ELSE IF value < thresholds.MODERATE
             THEN << "MODERATE", "[M]", thresholds.MODERATE_DESC >>
             ELSE IF value < thresholds.BAD
             THEN << "UNHEALTHY", "[U]", thresholds.BAD_DESC >>
             ELSE << "VERY UNHEALTHY", "[VU]", "Dangerous pollution levels" >>

get_health_rating_floor(r, pollutant_type, value) ==
    IF pollutant_type \notin DOMAIN HEALTH_THRESHOLDS(r)
    THEN << "UNKNOWN", "[?]", "No rating available" >>
    ELSE LET thresholds == HEALTH_THRESHOLDS(r)[pollutant_type]
         IN  IF value >= thresholds.GOOD
             THEN << "GOOD", "[G]", thresholds.GOOD_DESC >>
             ELSE IF value <= thresholds.MODERATE
             THEN << "MODERATE", "[M]", thresholds.MODERATE_DESC >>
             ELSE IF value <= thresholds.BAD
             THEN << "UNHEALTHY", "[U]", thresholds.BAD_DESC >>
             ELSE << "VERY UNHEALTHY", "[VU]", "Dangerous pollution levels" >>

get_health_rating_default(r, pollutant_type, value) ==
    LET thresholds == IF pollutant_type \in DOMAIN HEALTH_THRESHOLDS(r)
                      THEN HEALTH_THRESHOLDS(r)[pollutant_type]
                      ELSE HEALTH_THRESHOLDS(r)["PM2_5"]
    IN  IF value <= thresholds.GOOD
        THEN << "GOOD", "[G]", thresholds.GOOD_DESC >>
        ELSE IF value <= thresholds.MODERATE
        THEN << "MODERATE", "[M]", thresholds.MODERATE_DESC >>
        ELSE IF value <= thresholds.BAD
        THEN << "UNHEALTHY", "[U]", thresholds.BAD_DESC >>
        ELSE << "VERY UNHEALTHY", "[VU]", "Dangerous pollution levels" >>

get_health_rating(r, pollutant_type, value) ==
    IF pollutant_type \notin DOMAIN HEALTH_THRESHOLDS(r)
    THEN << "UNKNOWN", "[?]", "No rating available" >>
    ELSE LET thresholds == HEALTH_THRESHOLDS(r)[pollutant_type]
         IN  IF value <= thresholds.GOOD
             THEN << "GOOD", "[G]", thresholds.GOOD_DESC >>
             ELSE IF value <= thresholds.MODERATE
             THEN << "MODERATE", "[M]", thresholds.MODERATE_DESC >>
             ELSE IF value <= thresholds.BAD
             THEN << "UNHEALTHY", "[U]", thresholds.BAD_DESC >>
             ELSE << "VERY UNHEALTHY", "[VU]", "Dangerous pollution levels" >>

----------------------------------------------------------------------------
(* aqi_to_pm25.  Each branch of the source is one row: the branch is taken *)
(* when aqi <= upto (the last row is the else branch), and yields          *)
(*     c_low + (aqi - low) * num / den.                                    *)
(* num and den are in tenths: 12.0/50 is 120/500, (35.4 - 12.1)/49 is      *)
(* (354 - 121)/490, 0.5 is 5/10.                                           *)

Row(upto, low, c_low, num, den) ==
    [else |-> FALSE, upto |-> upto, low |-> low, c_low |-> c_low, num |-> num, den |-> den]

ElseRow(low, c_low, num, den) ==
    [else |-> TRUE, upto |-> 0, low |-> low, c_low |-> c_low, num |-> num, den |-> den]

aqi_rows_shifted(r) ==
    IF r = "NA"
    THEN << Row(Num(50), 0, 0, 120, 500),
            Row(Num(100), Num(51), Tenths(121), 354 - 121, 490),
            Row(Num(150), Num(101), Tenths(355), 554 - 355, 490),
            ElseRow(Num(151), Tenths(555), 1504 - 555, 490) >>
    ELSE << Row(Num(50), 0, 0, 5, 10),
            Row(Num(100), Num(50), Num(26), 5, 10),
            Row(Num(150), Num(100), Num(50), 5, 10),
            Row(Num(200), Num(150), Num(75), 5, 10),
            Row(Num(300), Num(200), Num(100), 10, 10),
            ElseRow(Num(300), Num(200), 10, 10) >>

aqi_rows(r) ==
    IF r = "NA"
    THEN << Row(Num(50), 0, 0, 120, 500),
            Row(Num(100), Num(51), Tenths(121), 354 - 121, 490),
            Row(Num(150), Num(101), Tenths(355), 554 - 355, 490),
            ElseRow(Num(151), Tenths(555), 1504 - 555, 490) >>
    ELSE << Row(Num(50), 0, 0, 5, 10),
            Row(Num(100), Num(50), Num(25), 5, 10),
            Row(Num(150), Num(100), Num(50), 5, 10),
            Row(Num(200), Num(150), Num(75), 5, 10),
            Row(Num(300), Num(200), Num(100), 10, 10),
            ElseRow(Num(300), Num(200), 10, 10) >>

\* a variant that interpolates from the end of the previous segment
row_value_from_bound(r, i, aqi) ==
    LET row == aqi_rows(r)[i]
    IN  row.c_low + ((aqi - (IF i = 1 THEN 0 ELSE aqi_rows(r)[i - 1].upto)) \div row.den)
                        * row.num

\* the value of row i's expression at aqi (exact for aqi given in tenths)
row_value(r, i, aqi) ==
    LET row == aqi_rows(r)[i]
    IN  row.c_low + ((aqi - row.low) \div row.den) * row.num

\* the first branch whose condition holds
aqi_branch(r, aqi) ==
    LET rows == aqi_rows(r)
    IN  CHOOSE i \in 1..Len(rows) :
            /\ rows[i].else \/ aqi <= rows[i].upto
            /\ \A j \in 1..(i - 1) : ~rows[j].else /\ aqi > rows[j].upto

aqi_to_pm25(r, aqi) == row_value(r, aqi_branch(r, aqi), aqi)

----------------------------------------------------------------------------
(* Provider responses.  A JSON value read from a response is tagged: a     *)
(* number, a string, null, or a key that is absent.                        *)

JNum(v) == [t |-> "num", v |-> v]
JStr    == [t |-> "str", v |-> 0]
JNull   == [t |-> "null", v |-> 0]
JAbsent == [t |-> "absent", v |-> 0]

\* dict.get(key, default)
Get(x, default) == IF x.t = "absent" THEN default ELSE x

\* dict.get(key): an absent key reads as None
GetNone(x) == IF x.t = "absent" THEN JNull ELSE x

\* Python truth value: None and 0 are false, a non-empty string is true
Truthy(x) == (x.t = "num" /\ x.v # 0) \/ x.t = "str"

\* comparing a string or None with a number raises TypeError
CompareRaises(x) == x.t # "num"

\* The outcome of requests.get followed by response.json():
\*   "timeout"     requests raised (timeout, connection failure)
\*   "http_error"  a response whose status is not 200
\*   "garbage"     status 200, response.json() raises
\*   "json"        status 200 and a JSON body
Failed(resp) == resp.kind \in {"timeout", "http_error", "garbage"}

NoBody == [has_current |-> FALSE]

Timeout   == [kind |-> "timeout", body |-> NoBody]
HttpError == [kind |-> "http_error", body |-> NoBody]
Garbage   == [kind |-> "garbage", body |-> NoBody]
Json(b)   == [kind |-> "json", body |-> b]

\* the part of an IQAir body that the programs read:
\* data.city and data.current.pollution.{aqius, no2, o3, so2, co}
Pollution(city, aqius, no2, o3, so2, co) ==
    [has_current |-> TRUE, city |-> city,
     aqius |-> aqius, no2 |-> no2, o3 |-> o3, so2 |-> so2, co |-> co]

----------------------------------------------------------------------------
(* part_000: process_iqair_data, get_iqair_data *)

iqair_other_pollutants(pollution) ==
    << << "NO2", GetNone(pollution.no2) >>, << "O3", GetNone(pollution.o3) >>,
       << "SO2", GetNone(pollution.so2) >>, << "CO", GetNone(pollution.co) >> >>

\* a variant whose records have no 'type'
GroundMeasurement_untyped(pollutant, value, units, source) ==
    LET hr == get_health_rating("ID", pollutant, value)
    IN  [pollutant |-> pollutant, value |-> value, units |-> units, source |-> source,
         rating |-> hr[1], indicator |-> hr[2], description |-> hr[3]]

GroundMeasurement(pollutant, value, units, source) ==
    LET hr == get_health_rating("ID", pollutant, value)
    IN  [pollutant |-> pollutant, value |-> value, units |-> units, source |-> source,
         rating |-> hr[1], indicator |-> hr[2], description |-> hr[3], type |-> "GROUND"]

RECURSIVE iqair_others(_, _, _)
iqair_others(others, i, city) ==
    IF i > Len(others) THEN <<>>
    ELSE LET poll_name == others[i][1]
             value == others[i][2]
         IN  IF Truthy(value) /\ value.v > 0
             THEN << GroundMeasurement(poll_name, value.v,
                         HEALTH_THRESHOLDS("ID")[poll_name].UNITS, "IQAir - " \o city) >>
                  \o iqair_others(others, i + 1, city)
             ELSE iqair_others(others, i + 1, city)

process_iqair_data(data) ==
    IF ~data.has_current THEN <<>>
    ELSE LET pm25_aqi == Get(data.aqius, JNum(0))
             others == iqair_other_pollutants(data)
             appends == (pm25_aqi.t = "num" /\ pm25_aqi.v > 0)
                        \/ \E i \in 1..Len(others) :
                               Truthy(others[i][2]) /\ others[i][2].t = "num"
                               /\ others[i][2].v > 0
             \* TypeError on a comparison, KeyError on data['data']['city']:
             \* the except branch returns []
             raises == \/ CompareRaises(pm25_aqi)
                       \/ \E i \in 1..Len(others) :
                              Truthy(others[i][2]) /\ CompareRaises(others[i][2])
                       \/ appends /\ data.city = ""
         IN  IF raises THEN <<>>
             ELSE (IF pm25_aqi.v > 0
                   THEN LET pm25_conc == aqi_to_pm25("ID", pm25_aqi.v)
                        IN  << GroundMeasurement("PM2_5", pm25_conc,
                                   HEALTH_THRESHOLDS("ID")["PM2_5"].UNITS,
                                   "IQAir - " \o data.city) @@ [aqi |-> pm25_aqi.v] >>
                   ELSE <<>>)
                  \o iqair_others(others, 1, data.city)

get_iqair_data(resp) ==
    IF resp.kind = "json" THEN process_iqair_data(resp.body) ELSE <<>>

----------------------------------------------------------------------------
(* final.py: process_iqair_response, get_iqair_city_data, get_co2_estimation *)

CityMeasurement(pollutant, value, units, city_info) ==
    LET hr == get_health_rating("NA", pollutant, value)
    IN  [pollutant |-> pollutant, value |-> value, units |-> units,
         source |-> "IQAir - " \o city_info.city \o ", " \o city_info.country,
         rating |-> hr[1], indicator |-> hr[2], description |-> hr[3],
         city |-> city_info.city, country |-> city_info.country, timestamp |-> "now"]

process_iqair_response(data, city_info) ==
    IF ~data.has_current THEN <<>>
    ELSE LET aqius == Get(data.aqius, JNum(0))
             o3 == GetNone(data.o3)
             no2 == GetNone(data.no2)
             pm == IF aqius.t = "num" /\ aqius.v > 0
                   THEN << CityMeasurement("PM2_5", aqi_to_pm25("NA", aqius.v),
                                           "ug/m3", city_info) @@ [aqi |-> aqius.v] >>
                   ELSE <<>>
             m_o3 == IF Truthy(o3) THEN << CityMeasurement("O3", o3.v, "ppb", city_info) >>
                     ELSE <<>>
             m_no2 == IF Truthy(no2) THEN << CityMeasurement("NO2", no2.v, "ppb", city_info) >>
                      ELSE <<>>
         IN  \* an exception leaves the loop of appends; what was appended is returned
             IF CompareRaises(aqius) THEN <<>>
             ELSE IF Truthy(o3) /\ CompareRaises(o3) THEN pm
             ELSE IF Truthy(no2) /\ CompareRaises(no2) THEN pm \o m_o3
             ELSE pm \o m_o3 \o m_no2

get_iqair_city_data(resp, city_info) ==
    IF resp.kind = "json" THEN process_iqair_response(resp.body, city_info) ELSE <<>>

city_adjustments ==
    [c \in {"New York", "Los Angeles", "Chicago", "Toronto", "Vancouver",
            "Mexico City", "Montreal", "Houston"} |->
        CASE c = "New York" -> 25 [] c = "Los Angeles" -> 30 [] c = "Chicago" -> 20
          [] c = "Toronto" -> 15 [] c = "Vancouver" -> 10 [] c = "Mexico City" -> 35
          [] c = "Montreal" -> 18 [] c = "Houston" -> 22]

\* rush_hour: 7 <= current_hour <= 9 or 16 <= current_hour <= 18
get_co2_estimation(city_info, rush_hour) ==
    LET base_co2 == 420
        adjustment == (IF city_info.city \in DOMAIN city_adjustments
                       THEN city_adjustments[city_info.city] ELSE 20)
                      + (IF rush_hour THEN 15 ELSE 0)
        estimated_co2 == base_co2 + adjustment
        r == IF estimated_co2 <= 450 THEN << "EXCELLENT", "[E]", "Fresh outdoor air" >>
             ELSE IF estimated_co2 <= 600 THEN << "GOOD", "[G]", "Typical urban air" >>
             ELSE IF estimated_co2 <= 1000 THEN << "MODERATE", "[M]", "Elevated CO2 levels" >>
             ELSE << "POOR", "[P]", "High CO2 concentration" >>
    IN  [pollutant |-> "CO2", value |-> Num(estimated_co2), units |-> "ppm",
         source |-> "CO2 Estimate - " \o city_info.city,
         rating |-> r[1], indicator |-> r[2], description |-> r[3],
         city |-> city_info.city, country |-> city_info.country, timestamp |-> "now",
         note |-> "Estimated based on location and time"]

----------------------------------------------------------------------------
(* part_000: process_openaq_data, get_openaq_data *)

\* str.upper() on the names the providers send
Upper(s) ==
    CASE s = "pm25" -> "PM25"   [] s = "pm10" -> "PM10" [] s = "no2" -> "NO2"
      [] s = "o3" -> "O3"       [] s = "so2" -> "SO2"   [] s = "co" -> "CO"
      [] s = "bc" -> "BC"       [] s = "pm2.5" -> "PM2.5"
      [] s = "humidity" -> "HUMIDITY" [] s = "ozone" -> "OZONE"
      [] OTHER -> s

openaq_poll_map ==
    [p \in {"PM25", "PM10", "NO2", "O3", "SO2", "CO"} |->
        IF p = "PM25" THEN "PM2_5" ELSE p]

\* list[:n]
Take(list, n) == SubSeq(list, 1, IF Len(list) < n THEN Len(list) ELSE n)

\* a reading of a station: measurement['parameter'] ("" when the key is
\* absent), measurement['value'] and measurement.get('unit', 'unknown')
Reading(parameter, value, unit) == [parameter |-> parameter, value |-> value, unit |-> unit]

Station(location, measurements) == [location |-> location, measurements |-> measurements]

\* value * 1.15
TimesFactor(value) == (value \div 100) * 115

\* a variant that rates every reading on the PM2_5 scale
openaq_reading_pm_scale(location_name, measurement) ==
    LET param == Upper(measurement.parameter)
        unit == IF measurement.unit = "" THEN "unknown" ELSE measurement.unit
    IN  IF param \notin DOMAIN openaq_poll_map THEN <<>>
        ELSE LET mapped_poll == openaq_poll_map[param]
                 convert == mapped_poll = "CO" /\ unit = "ppm"
                 value == IF convert THEN TimesFactor(measurement.value.v)
                          ELSE measurement.value.v
             IN  << [GroundMeasurement("PM2_5", value,
                                       IF convert THEN "mg/m3" ELSE unit,
                                       "OpenAQ: " \o location_name)
                        EXCEPT !.pollutant = mapped_poll] >>

openaq_reading(location_name, measurement) ==
    LET param == Upper(measurement.parameter)
        unit == IF measurement.unit = "" THEN "unknown" ELSE measurement.unit
    IN  IF param \notin DOMAIN openaq_poll_map THEN <<>>
        ELSE LET mapped_poll == openaq_poll_map[param]
                 convert == mapped_poll = "CO" /\ unit = "ppm"
                 value == IF convert THEN TimesFactor(measurement.value.v)
                          ELSE measurement.value.v
             IN  << GroundMeasurement(mapped_poll, value,
                                      IF convert THEN "mg/m3" ELSE unit,
                                      "OpenAQ: " \o location_name) >>

\* KeyError on measurement['parameter'] or measurement['value'], TypeError on
\* a value that is not a number
openaq_reading_raises(measurement) ==
    \/ measurement.parameter = ""
    \/ measurement.value.t = "absent"
    \/ /\ Upper(measurement.parameter) \in DOMAIN openaq_poll_map
       /\ measurement.value.t # "num"

RECURSIVE openaq_readings(_, _, _)
openaq_readings(location_name, measurements, i) ==
    IF i > Len(measurements) THEN <<>>
    ELSE openaq_reading(location_name, measurements[i])
         \o openaq_readings(location_name, measurements, i + 1)

RECURSIVE openaq_stations(_, _)
openaq_stations(stations, i) ==
    IF i > Len(stations) THEN <<>>
    ELSE openaq_readings(IF stations[i].location = "" THEN "Unknown"
                         ELSE stations[i].location,
                         stations[i].measurements, 1)
         \o openaq_stations(stations, i + 1)

process_openaq_data(data) ==
    IF ~data.has_results THEN <<>>
    ELSE LET stations == Take(data.results, 5)
             raises == \E i \in 1..Len(stations) :
                           \E j \in 1..Len(stations[i].measurements) :
                               openaq_reading_raises(stations[i].measurements[j])
         IN  IF raises THEN <<>> ELSE openaq_stations(stations, 1)

\* a variant that does not look at the status
get_openaq_data_any_status(resp) ==
    IF resp.kind \in {"json", "http_error"} /\ resp.body # NoBody
    THEN process_openaq_data(resp.body) ELSE <<>>

get_openaq_data(resp) ==
    IF resp.kind = "json" THEN process_openaq_data(resp.body) ELSE <<>>

----------------------------------------------------------------------------
(* part_000: process_tempo_data, scrape_tempo_website, get_tempo_iku_data *)

tempo_poll_map ==
    [p \in {"PM2.5", "PM25", "PM10", "NO2", "NITROGEN DIOXIDE", "O3", "OZONE",
            "SO2", "SULFUR DIOXIDE", "CO", "CARBON MONOXIDE"} |->
        CASE p \in {"PM2.5", "PM25"} -> "PM2_5"
          [] p = "PM10" -> "PM10"
          [] p \in {"NO2", "NITROGEN DIOXIDE"} -> "NO2"
          [] p \in {"O3", "OZONE"} -> "O3"
          [] p \in {"SO2", "SULFUR DIOXIDE"} -> "SO2"
          [] p \in {"CO", "CARBON MONOXIDE"} -> "CO"]

\* a station of the Tempo API: station.get('name', 'Unknown'), whether it has
\* the key 'pollutants', and the entries (name, value) of that list
TempoStation(name, has_pollutants, pollutants) ==
    [name |-> name, has_pollutants |-> has_pollutants, pollutants |-> pollutants]

TempoPollutant(name, value) == [name |-> name, value |-> value]

tempo_pollutant(station_name, pollutant_data) ==
    LET poll_name == Upper(pollutant_data.name)
        value == Get(pollutant_data.value, JNum(0))
    IN  IF poll_name \notin DOMAIN tempo_poll_map THEN <<>>
        ELSE LET mapped_poll == tempo_poll_map[poll_name]
             IN  << GroundMeasurement(mapped_poll, value.v,
                                      HEALTH_THRESHOLDS("ID")[mapped_poll].UNITS,
                                      "Tempo IKU: " \o station_name) >>

tempo_pollutant_raises(pollutant_data) ==
    /\ Upper(pollutant_data.name) \in DOMAIN tempo_poll_map
    /\ CompareRaises(Get(pollutant_data.value, JNum(0)))

RECURSIVE tempo_pollutants(_, _, _)
tempo_pollutants(station_name, pollutants, i) ==
    IF i > Len(pollutants) THEN <<>>
    ELSE tempo_pollutant(station_name, pollutants[i])
         \o tempo_pollutants(station_name, pollutants, i + 1)

RECURSIVE tempo_stations(_, _)
tempo_stations(stations, i) ==
    IF i > Len(stations) THEN <<>>
    ELSE (IF stations[i].has_pollutants
          THEN tempo_pollutants(IF stations[i].name = "" THEN "Unknown"
                                ELSE stations[i].name,
                                stations[i].pollutants, 1)
          ELSE <<>>)
         \o tempo_stations(stations, i + 1)

process_tempo_data(data) ==
    IF ~data.is_list THEN <<>>
    ELSE LET stations == Take(data.stations, 3)
             raises == \E i \in 1..Len(stations) :
                           /\ stations[i].has_pollutants
                           /\ \E j \in 1..Len(stations[i].pollutants) :
                                  tempo_pollutant_raises(stations[i].pollutants[j])
         IN  IF raises THEN <<>> ELSE tempo_stations(stations, 1)

\* The text of an HTML element is a sequence of characters.
Digits == {"0", "1", "2", "3", "4", "5", "6", "7", "8", "9"}

DigitValue(c) ==
    CASE c = "0" -> 0 [] c = "1" -> 1 [] c = "2" -> 2 [] c = "3" -> 3 [] c = "4" -> 4
      [] c = "5" -> 5 [] c = "6" -> 6 [] c = "7" -> 7 [] c = "8" -> 8 [] c = "9" -> 9

\* text.split('.')[0]
RECURSIVE BeforeDot(_)
BeforeDot(text) ==
    IF text = <<>> \/ Head(text) = "." THEN <<>>
    ELSE << Head(text) >> \o BeforeDot(Tail(text))

\* filter(str.isdigit, ...)
OnlyDigits(text) == SelectSeq(text, LAMBDA c : c \in Digits)

\* float() of a string of digits
RECURSIVE DigitsNumber(_)
DigitsNumber(ds) ==
    IF ds = <<>> THEN 0
    ELSE DigitsNumber(SubSeq(ds, 1, Len(ds) - 1)) * 10 + DigitValue(ds[Len(ds)])

scrape_element(text) ==
    LET ds == OnlyDigits(BeforeDot(text))
    IN  IF ds = <<>> THEN <<>>                     \* ValueError: continue
        ELSE LET value == DigitsNumber(ds)
             IN  IF 0 < value /\ value < 500
                 THEN << GroundMeasurement("PM2_5", Num(value),
                                           HEALTH_THRESHOLDS("ID")["PM2_5"].UNITS,
                                           "Tempo.co IKU") >>
                 ELSE <<>>

RECURSIVE scrape_elements(_, _)
scrape_elements(texts, i) ==
    IF i > Len(texts) THEN <<>>
    ELSE scrape_element(texts[i]) \o scrape_elements(texts, i + 1)

\* A page: requests raised ("timeout"), or a response of any status whose
\* content has the elements `texts`; the status is not looked at.
Page(status, texts) == [kind |-> "page", status |-> status, texts |-> texts]

NoPage == [kind |-> "timeout", status |-> 0, texts |-> <<>>]

scrape_tempo_website(page) ==
    IF page.kind = "timeout" THEN <<>>
    ELSE scrape_elements(Take(page.texts, 5), 1)

get_tempo_iku_data(resp, page) ==
    CASE resp.kind = "json" -> process_tempo_data(resp.body)
      [] resp.kind = "http_error" -> scrape_tempo_website(page)
      [] OTHER -> <<>>

----------------------------------------------------------------------------
(* Bounds and inputs *)

\* perform_update runs at most MaxCycles times
MaxCycles == 3

\* the first NumCities entries of CONFIG["north_america_cities"] are configured
NumCities == 1

north_america_cities ==
    << [city |-> "New York", state |-> "New York", country |-> "USA"],
       [city |-> "Los Angeles", state |-> "California", country |-> "USA"],
       [city |-> "Chicago", state |-> "Illinois", country |-> "USA"],
       [city |-> "Toronto", state |-> "Ontario", country |-> "Canada"],
       [city |-> "Vancouver", state |-> "British Columbia", country |-> "Canada"],
       [city |-> "Mexico City", state |-> "Mexico City", country |-> "Mexico"],
       [city |-> "Montreal", state |-> "Quebec", country |-> "Canada"],
       [city |-> "Houston", state |-> "Texas", country |-> "USA"] >>

Cities == Take(north_america_cities, NumCities)

\* a response with a non-200 status and a body that would parse
HttpErrorWith(b) == [kind |-> "http_error", body |-> b]

IQAirBody(city, aqius, no2, o3) == Pollution(city, aqius, no2, o3, JAbsent, JAbsent)

\* what IQAir may answer to part_000
IQAirResponsesID ==
    { Timeout, HttpError, Garbage, Json(NoBody),
      HttpErrorWith(IQAirBody("Jakarta", JNum(Num(75)), JAbsent, JAbsent)),
      Json(IQAirBody("Jakarta", JNum(Num(75)), JAbsent, JAbsent)),
      Json(IQAirBody("Jakarta", JNum(Num(40)), JNum(Num(90)), JNum(0))),
      \* no data.city: KeyError
      Json(IQAirBody("", JNum(Num(75)), JAbsent, JAbsent)),
      \* o3 is a string: TypeError after PM2_5 was appended
      Json(IQAirBody("Jakarta", JNum(Num(30)), JAbsent, JStr)) }

\* what IQAir may answer to final.py, per city
IQAirResponsesNA ==
    { Timeout, HttpError, Garbage, Json(NoBody),
      HttpErrorWith(IQAirBody("", JNum(Num(75)), JAbsent, JAbsent)),
      Json(IQAirBody("", JNum(Num(75)), JAbsent, JAbsent)),
      Json(IQAirBody("", JNum(Num(40)), JNum(-Num(5)), JNum(Num(60)))),
      \* o3 is a string: TypeError after PM2_5 was appended
      Json(IQAirBody("", JNum(Num(75)), JNum(Num(30)), JStr)) }

OpenAQBody(stations) == [has_current |-> FALSE, has_results |-> TRUE, results |-> stations]

OpenAQResponses ==
    { Timeout, HttpError, Garbage, Json(NoBody @@ [has_results |-> FALSE]),
      HttpErrorWith(OpenAQBody(<< Station("Jakarta Central",
                        << Reading("pm25", JNum(Num(20)), "ug/m3") >>) >>)),
      Json(OpenAQBody(<< Station("Jakarta Central",
                        << Reading("pm25", JNum(Num(20)), "ug/m3") >>) >>)),
      Json(OpenAQBody(<< Station("",
                        << Reading("co", JNum(Num(3)), "ppm"),
                           Reading("bc", JNum(Num(1)), "ug/m3"),
                           Reading("o3", JNum(-Num(999)), "ug/m3"),
                           Reading("no2", JNum(Num(90)), "ppb") >>) >>)),
      \* the second reading has no 'parameter': KeyError
      Json(OpenAQBody(<< Station("Jakarta Central",
                        << Reading("pm25", JNum(Num(20)), "ug/m3"),
                           Reading("", JNum(Num(7)), "") >>) >>)),
      \* the second reading is of a pollutant outside poll_map and has no 'value'
      Json(OpenAQBody(<< Station("Jakarta Central",
                        << Reading("pm25", JNum(Num(20)), "ug/m3"),
                           Reading("bc", JAbsent, "ug/m3") >>) >>)) }

TempoBody(stations) == [has_current |-> FALSE, is_list |-> TRUE, stations |-> stations]

TempoResponses ==
    { Timeout, HttpError, Garbage, Json(NoBody @@ [is_list |-> FALSE]),
      Json(TempoBody(<< TempoStation("Bundaran HI", TRUE,
                          << TempoPollutant("pm2.5", JNum(Num(42))),
                             TempoPollutant("humidity", JNum(Num(70))) >>),
                        TempoStation("", FALSE, <<>>) >>)),
      \* the second value is null: TypeError
      Json(TempoBody(<< TempoStation("Bundaran HI", TRUE,
                          << TempoPollutant("pm2.5", JNum(Num(42))),
                             TempoPollutant("ozone", JNull) >>) >>)) }

TempoPages ==
    { NoPage,
      Page(200, <<>>),
      Page(200, << << "1", "2", ".", "7" >>, << "n", "/", "a" >>, << "6", "1", "2" >> >>),
      Page(404, << << "4", "0", "4" >> >>) }

----------------------------------------------------------------------------
(* The program state *)

Threads == {"main", "update_thread"}

\* positions inside perform_update
CycleSteps == {"perform_update", "collect", "iqair", "openaq", "tempo", "weather",
               "city_iqair", "city_co2", "city_weather", "display", "save"}

CollectSteps == {"iqair", "openaq", "tempo", "city_iqair", "city_co2", "city_weather"}

NoFrame == [data |-> 0, city |-> 0, weather |-> FALSE]

NoCycle == [n |-> 0, thread |-> "main", invoked |-> {}, all_failed |-> TRUE, primary |-> 0,
            returned |-> FALSE, published |-> FALSE, exported |-> FALSE, error |-> FALSE,
            calls |-> <<>>, shown |-> 0]

\* history: a call of the cycle, in the order of the calls, and what it returned
Call(adapter, returned) == [adapter |-> adapter, returned |-> returned]

NoCall == [fn |-> "none", pollutant |-> "", a |-> 0, b |-> 0]

\* Module globals after import, main() having reached perform_update() in
\* start_monitoring(); reference 0 is the list of `current_data = []`.
ProgramInit ==
    /\ threshold_table = load_thresholds(region)
    /\ pc = [t \in Threads |-> IF t = "main" THEN "perform_update" ELSE "not_started"]
    /\ monitoring_active = TRUE
    /\ run_count = 0
    /\ current_data = 0
    /\ weather_data = {}
    /\ heap = (0 :> <<>>)
    /\ next_id = 1
    /\ frame = [t \in Threads |-> NoFrame]
    /\ cycle = NoCycle
    /\ complete = [prev |-> 0, last |-> 0, snap |-> (0 :> <<>>)]

Init ==
    /\ region \in Regions
    /\ ProgramInit
    /\ fn_call = NoCall
    /\ fn_ret = <<>>

Alive == pc["main"] # "exited"

\* a variant in which the update thread ends when perform_update returns
AfterUpdate_thread_ends(t) == IF t = "main" THEN "start_thread" ELSE "returned"

\* where perform_update returns to
AfterUpdate(t) == IF t = "main" THEN "start_thread" ELSE "loop"

\* list objects that a global or a local still refers to
Live(cur, frames) == {cur} \cup {frames[t].data : t \in Threads}

Collect(h, cur, frames) == [id \in (DOMAIN h) \cap Live(cur, frames) |-> h[id]]

Goto(t, step) == pc' = [pc EXCEPT ![t] = step]

Pure == UNCHANGED << region, threshold_table, fn_call, fn_ret >>

\* list.extend / list.append on the list that `ref` refers to
Extend(ref, items) == heap' = [heap EXCEPT ![ref] = @ \o items]

\* the collection has returned its list
Returned(ref, contents) ==
    /\ complete' = [prev |-> complete.last, last |-> ref,
                    snap |-> [id \in ((DOMAIN complete.snap) \cap DOMAIN heap) \cup {ref} |->
                                 IF id = ref THEN contents ELSE complete.snap[id]]]

----------------------------------------------------------------------------
(* perform_update, first statement: run_count += 1 *)

\* a variant whose update thread counts an update twice
PerformUpdate_counts_twice(t) ==
    /\ Alive /\ pc[t] = "perform_update"
    /\ run_count < MaxCycles
    /\ run_count' = IF t = "main" THEN run_count + 1 ELSE run_count + 2
    /\ cycle' = [NoCycle EXCEPT !.n = run_count + 1, !.thread = t]
    /\ Goto(t, "collect")
    /\ UNCHANGED << monitoring_active, current_data, weather_data, heap, next_id,
                    frame, complete >>
    /\ Pure

PerformUpdate(t) ==
    /\ Alive /\ pc[t] = "perform_update"
    /\ run_count < MaxCycles
    /\ run_count' = run_count + 1
    /\ cycle' = [NoCycle EXCEPT !.n = run_count + 1, !.thread = t]
    /\ Goto(t, "collect")
    /\ UNCHANGED << monitoring_active, current_data, weather_data, heap, next_id,
                    frame, complete >>
    /\ Pure

\* `all_data = []` / `air_quality_data = []`: the list the collection fills
new_list_reused(cur, fresh) == cur

new_list(cur, fresh) == fresh

\* collect_all_air_quality_data / collect_all_data, up to the first request
CollectBegin(t) ==
    /\ Alive /\ pc[t] = "collect"
    /\ LET ref == new_list(current_data, next_id)
       IN  /\ heap' = [id \in (DOMAIN heap) \cup {ref} |-> IF id = ref THEN <<>> ELSE heap[id]]
           /\ frame' = [frame EXCEPT ![t] = [data |-> ref, city |-> 1, weather |-> FALSE]]
    /\ next_id' = next_id + 1
    /\ weather_data' = IF region = "NA" THEN {} ELSE weather_data
    /\ Goto(t, IF region = "NA" THEN "city_iqair" ELSE "iqair")
    /\ UNCHANGED << monitoring_active, run_count, current_data, cycle, complete >>
    /\ Pure

----------------------------------------------------------------------------
(* part_000: collect_all_air_quality_data *)

\* `if len(all_data) < 2`
needs_tempo_always(all_data) == TRUE

\* a variant with the threshold 1
needs_tempo_if_empty(all_data) == Len(all_data) < 1

needs_tempo(all_data) == Len(all_data) < 2

\* a variant that goes on to Tempo IKU, leaving OpenAQ out
CallIQAir_skips_openaq(t) ==
    /\ Alive /\ pc[t] = "iqair" /\ region = "ID"
    /\ \E resp \in IQAirResponsesID :
          LET iqair_data == get_iqair_data(resp)
          IN  /\ Extend(frame[t].data, iqair_data)
              /\ cycle' = [cycle EXCEPT !.invoked = @ \cup {"IQAir"},
                                        !.all_failed = @ /\ Failed(resp),
                                        !.primary = Len(iqair_data),
                                        !.calls = Append(@, Call("IQAir", iqair_data))]
    /\ Goto(t, "tempo")
    /\ UNCHANGED << monitoring_active, run_count, current_data, weather_data, next_id,
                    frame, complete >>
    /\ Pure

CallIQAir(t) ==
    /\ Alive /\ pc[t] = "iqair" /\ region = "ID"
    /\ \E resp \in IQAirResponsesID :
          LET iqair_data == get_iqair_data(resp)
          IN  /\ Extend(frame[t].data, iqair_data)
              /\ cycle' = [cycle EXCEPT !.invoked = @ \cup {"IQAir"},
                                        !.all_failed = @ /\ Failed(resp),
                                        !.primary = Len(iqair_data),
                                        !.calls = Append(@, Call("IQAir", iqair_data))]
    /\ Goto(t, "openaq")
    /\ UNCHANGED << monitoring_active, run_count, current_data, weather_data, next_id,
                    frame, complete >>
    /\ Pure

CallOpenAQ(t) ==
    /\ Alive /\ pc[t] = "openaq" /\ region = "ID"
    /\ \E resp \in OpenAQResponses :
          LET openaq_data == get_openaq_data(resp)
              all_data == heap[frame[t].data] \o openaq_data
          IN  /\ Extend(frame[t].data, openaq_data)
              /\ cycle' = [cycle EXCEPT !.invoked = @ \cup {"OpenAQ"},
                                        !.all_failed = @ /\ Failed(resp),
                                        !.returned = ~needs_tempo(all_data),
                                        !.calls = Append(@, Call("OpenAQ", openaq_data))]
              /\ IF needs_tempo(all_data)
                 THEN Goto(t, "tempo") /\ UNCHANGED complete
                 ELSE Goto(t, "weather") /\ Returned(frame[t].data, all_data)
    /\ UNCHANGED << monitoring_active, run_count, current_data, weather_data, next_id,
                    frame >>
    /\ Pure

CallTempo(t) ==
    /\ Alive /\ pc[t] = "tempo" /\ region = "ID"
    /\ \E resp \in TempoResponses, page \in TempoPages :
          LET tempo_data == get_tempo_iku_data(resp, page)
              all_data == heap[frame[t].data] \o tempo_data
              \* the page is requested after a non-200 answer of the API
              failed == /\ Failed(resp)
                        /\ resp.kind = "http_error" =>
                               (page.kind = "timeout" \/ page.status # 200)
          IN  /\ resp.kind # "http_error" => page = NoPage
              /\ Extend(frame[t].data, tempo_data)
              /\ cycle' = [cycle EXCEPT !.invoked = @ \cup {"Tempo"},
                                        !.all_failed = @ /\ failed,
                                        !.returned = TRUE,
                                        !.calls = Append(@, Call("Tempo", tempo_data))]
              /\ Returned(frame[t].data, all_data)
    /\ Goto(t, "weather")
    /\ UNCHANGED << monitoring_active, run_count, current_data, weather_data, next_id,
                    frame >>
    /\ Pure

\* perform_update: weather_data = get_weather_data(), a dict or None
GetWeather(t) ==
    /\ Alive /\ pc[t] = "weather" /\ region = "ID"
    /\ \E got \in BOOLEAN : frame' = [frame EXCEPT ![t].weather = got]
    /\ Goto(t, "display")
    /\ UNCHANGED << monitoring_active, run_count, current_data, weather_data, heap,
                    next_id, cycle, complete >>
    /\ Pure

----------------------------------------------------------------------------
(* final.py: collect_all_data, one city after the other *)

CityIQAir(t) ==
    /\ Alive /\ pc[t] = "city_iqair" /\ region = "NA"
    /\ \E resp \in IQAirResponsesNA :
          LET aq_data == get_iqair_city_data(resp, Cities[frame[t].city])
          IN  /\ Extend(frame[t].data, aq_data)
              /\ cycle' = [cycle EXCEPT !.invoked = @ \cup {"IQAir"},
                                        !.all_failed = @ /\ Failed(resp),
                                        !.primary = @ + Len(aq_data),
                                        !.calls = Append(@, Call("IQAir", aq_data))]
    /\ Goto(t, "city_co2")
    /\ UNCHANGED << monitoring_active, run_count, current_data, weather_data, next_id,
                    frame, complete >>
    /\ Pure

CityCO2(t) ==
    /\ Alive /\ pc[t] = "city_co2" /\ region = "NA"
    /\ \E rush_hour \in BOOLEAN :
          LET co2_data == get_co2_estimation(Cities[frame[t].city], rush_hour)
          IN  /\ Extend(frame[t].data, << co2_data >>)
              /\ cycle' = [cycle EXCEPT !.calls = Append(@, Call("CO2", << co2_data >>))]
    /\ Goto(t, "city_weather")
    /\ UNCHANGED << monitoring_active, run_count, current_data, weather_data, next_id,
                    frame, complete >>
    /\ Pure

\* get_weather_data falls back to the estimate, so the city always gets an
\* entry; then time.sleep(1) and the next city, or the return of the list
CityWeather(t) ==
    /\ Alive /\ pc[t] = "city_weather" /\ region = "NA"
    /\ LET city == Cities[frame[t].city]
       IN  weather_data' = weather_data \cup {city.city \o "_" \o city.country}
    /\ IF frame[t].city < Len(Cities)
       THEN /\ frame' = [frame EXCEPT ![t].city = @ + 1]
            /\ Goto(t, "city_iqair")
            /\ UNCHANGED << cycle, complete >>
       ELSE /\ Goto(t, "display")
            /\ cycle' = [cycle EXCEPT !.returned = TRUE]
            /\ Returned(frame[t].data, heap[frame[t].data])
            /\ UNCHANGED frame
    /\ UNCHANGED << monitoring_active, run_count, current_data, heap, next_id >>
    /\ Pure

----------------------------------------------------------------------------
(* display_results and the rest of perform_update *)

\* a variant that leaves the initial list published
published_reference_initial(air_quality_data) == 0

\* what `current_data = air_quality_data` binds the global to: the list
\* object of the argument itself, no copy of it
published_reference(air_quality_data) == air_quality_data

\* `current_data = air_quality_data`, then the printing; an exception of
\* the printing is caught by perform_update, which then skips the export
DisplayResults(t) ==
    /\ Alive /\ pc[t] = "display"
    /\ current_data' = published_reference(frame[t].data)
    /\ \E raised \in BOOLEAN :
          /\ raised => (region = "NA" \/ frame[t].weather)
          /\ cycle' = [cycle EXCEPT !.published = TRUE, !.error = raised,
                                    !.shown = run_count]
          /\ IF raised
             THEN /\ Goto(t, AfterUpdate(t))
                  /\ frame' = [frame EXCEPT ![t] = NoFrame]
             ELSE /\ Goto(t, "save")
                  /\ UNCHANGED frame
    /\ heap' = Collect(heap, current_data', frame')
    /\ complete' = [complete EXCEPT
                       !.snap = [id \in (DOMAIN @) \cap DOMAIN heap' |-> @[id]]]
    /\ UNCHANGED << monitoring_active, run_count, weather_data, next_id >>
    /\ Pure

\* `if data:` write the CSV file(s); an exception is caught and logged
SaveData(t) ==
    /\ Alive /\ pc[t] = "save"
    /\ \E written \in BOOLEAN :
          /\ written => heap[frame[t].data] # <<>>
          /\ cycle' = [cycle EXCEPT !.exported = written,
                                    !.error = ~written /\ heap[frame[t].data] # <<>>]
    /\ frame' = [frame EXCEPT ![t] = NoFrame]
    /\ Goto(t, AfterUpdate(t))
    /\ UNCHANGED << monitoring_active, run_count, current_data, weather_data, heap,
                    next_id, complete >>
    /\ Pure

----------------------------------------------------------------------------
(* start_monitoring and the update thread *)

\* threading.Thread(target=..., daemon=True).start()
StartThread ==
    /\ pc["main"] = "start_thread"
    /\ pc' = [pc EXCEPT !["main"] = "wait", !["update_thread"] = "loop"]
    /\ UNCHANGED << monitoring_active, run_count, current_data, weather_data, heap,
                    next_id, frame, cycle, complete >>
    /\ Pure

\* `while monitoring_active:`
WorkerLoop ==
    /\ Alive /\ pc["update_thread"] = "loop"
    /\ Goto("update_thread", IF monitoring_active THEN "sleep" ELSE "returned")
    /\ UNCHANGED << monitoring_active, run_count, current_data, weather_data, heap,
                    next_id, frame, cycle, complete >>
    /\ Pure

\* time.sleep(interval) returns
WorkerSleep ==
    /\ Alive /\ pc["update_thread"] = "sleep"
    /\ Goto("update_thread", "wake")
    /\ UNCHANGED << monitoring_active, run_count, current_data, weather_data, heap,
                    next_id, frame, cycle, complete >>
    /\ Pure

\* a variant that calls perform_update without testing the flag
WorkerWake_unchecked ==
    /\ Alive /\ pc["update_thread"] = "wake"
    /\ Goto("update_thread", "perform_update")
    /\ UNCHANGED << monitoring_active, run_count, current_data, weather_data, heap,
                    next_id, frame, cycle, complete >>
    /\ Pure

\* `if monitoring_active: perform_update()`
WorkerWake ==
    /\ Alive /\ pc["update_thread"] = "wake"
    /\ Goto("update_thread", IF monitoring_active THEN "perform_update" ELSE "loop")
    /\ UNCHANGED << monitoring_active, run_count, current_data, weather_data, heap,
                    next_id, frame, cycle, complete >>
    /\ Pure

\* Ctrl+C: KeyboardInterrupt is raised in the main thread.  In the waiting
\* loop it is caught and the flag is cleared; anywhere else in
\* start_monitoring it leaves the program.
KeyboardInterrupt ==
    /\ Alive
    /\ IF pc["main"] = "wait"
       THEN /\ monitoring_active' = FALSE
            /\ Goto("main", "stopping")
       ELSE /\ Goto("main", "exited")
            /\ UNCHANGED monitoring_active
    /\ UNCHANGED << run_count, current_data, weather_data, heap, next_id, frame,
                    cycle, complete >>
    /\ Pure

\* start_monitoring and main return, the interpreter exits; the update
\* thread is a daemon thread and stops wherever it is
Exit ==
    /\ pc["main"] = "stopping"
    /\ Goto("main", "exited")
    /\ UNCHANGED << monitoring_active, run_count, current_data, weather_data, heap,
                    next_id, frame, cycle, complete >>
    /\ Pure

Next ==
    \/ \E t \in Threads : PerformUpdate(t)
    \/ \E t \in Threads : CollectBegin(t)
    \/ \E t \in Threads : CallIQAir(t)
    \/ \E t \in Threads : CallOpenAQ(t)
    \/ \E t \in Threads : CallTempo(t)
    \/ \E t \in Threads : GetWeather(t)
    \/ \E t \in Threads : CityIQAir(t)
    \/ \E t \in Threads : CityCO2(t)
    \/ \E t \in Threads : CityWeather(t)
    \/ \E t \in Threads : DisplayResults(t)
    \/ \E t \in Threads : SaveData(t)
    \/ StartThread
    \/ WorkerLoop
    \/ WorkerSleep
    \/ WorkerWake
    \/ KeyboardInterrupt
    \/ Exit

Spec == Init /\ [][Next]_vars

----------------------------------------------------------------------------
(* The pure functions on their own: a call with two arguments a and b is   *)
(* drawn, and the function is applied to each.                             *)

Pollutants == {"PM2_5", "PM10", "NO2", "O3", "SO2", "CO", "CO2", "NH3"}

\* values at, one unit below and above, and a tenth below and above each
\* boundary of the pollutant, and values far from every boundary
ValuesNear(r, p) ==
    LET th == IF p \in DOMAIN HEALTH_THRESHOLDS(r) THEN HEALTH_THRESHOLDS(r)[p]
              ELSE HEALTH_THRESHOLDS(r)["PM2_5"]
    IN  UNION { {x - Tenths(1), x - 1, x, x + 1, x + Tenths(1)} :
                    x \in {th.GOOD, th.MODERATE, th.BAD} }
        \cup {-Num(1), 0, Num(2000)}

\* indices in tenths around every breakpoint of both programs
AqiTenths ==
    {0, 1, 250, 495, 499, 500, 501, 505, 509, 510, 750, 995, 1000, 1001, 1005, 1010,
     1250, 1495, 1500, 1501, 1505, 1510, 1750, 1995, 2000, 2001, 2500, 2995, 3000,
     3001, 3100}

RatingCalls(r) ==
    UNION { { [fn |-> "get_health_rating", pollutant |-> p, a |-> a, b |-> b] :
                  a \in ValuesNear(r, p), b \in ValuesNear(r, p) } :
            p \in Pollutants }

AqiCalls ==
    { [fn |-> "aqi_to_pm25", pollutant |-> "PM2_5", a |-> Tenths(a), b |-> Tenths(b)] :
          a \in AqiTenths, b \in AqiTenths }

\* the index of a response, converted and then rated
Pm25Calls ==
    { [fn |-> "pm25_rating", pollutant |-> "PM2_5", a |-> Tenths(a), b |-> 0] :
          a \in AqiTenths }

\* `pm25 = aqi_to_pm25(aqius)` and `get_health_rating("PM2_5", pm25)`
pm25_rating(r, aqius) ==
    LET pm25 == aqi_to_pm25(r, aqius)
    IN  << pm25, get_health_rating(r, "PM2_5", pm25) >>

\* a call of an adapter of the program that runs, with the response (and,
\* for Tempo, the page) that the provider gives it
AdapterCall(fn, resp, page) ==
    [fn |-> fn, pollutant |-> "", a |-> 0, b |-> 0, resp |-> resp, page |-> page]

AdapterCalls(r) ==
    IF r = "NA"
    THEN { AdapterCall("get_iqair_city_data", resp, NoPage) : resp \in IQAirResponsesNA }
    ELSE { AdapterCall("get_iqair_data", resp, NoPage) : resp \in IQAirResponsesID }
         \cup { AdapterCall("get_openaq_data", resp, NoPage) : resp \in OpenAQResponses }
         \cup { AdapterCall("get_tempo_iku_data", resp, page) :
                    resp \in TempoResponses,
                    page \in TempoPages }

\* collect_all_data is called with at most MaxCities cities configured
MaxCities == 2

\* a variant that adds the estimate of a city only to measurements of it
city_measurements_if_data(aq_data, co2_data) ==
    IF aq_data = <<>> THEN <<>> ELSE aq_data \o << co2_data >>

\* what one pass of the loop adds to air_quality_data:
\* `if aq_data: air_quality_data.extend(aq_data)` and
\* `if co2_data: air_quality_data.append(co2_data)`, co2_data being a dict
city_measurements(aq_data, co2_data) == aq_data \o << co2_data >>

\* collect_all_data as a function of what IQAir answers for each city and of
\* the hour at which each estimate is made; nothing that the calls of a pass
\* raise leaves them, so the `except ...: continue` of the loop is not taken
RECURSIVE collect_all_data(_, _, _)
collect_all_data(cities, resps, rush_hours) ==
    IF cities = <<>> THEN <<>>
    ELSE city_measurements(get_iqair_city_data(Head(resps), Head(cities)),
                           get_co2_estimation(Head(cities), Head(rush_hours)))
         \o collect_all_data(Tail(cities), Tail(resps), Tail(rush_hours))

\* a call of collect_all_data with the first n cities configured
CollectCall(n, resps, rush_hours) ==
    [fn |-> "collect_all_data", pollutant |-> "", a |-> n, b |-> 0,
     resps |-> resps, rush_hours |-> rush_hours]

CollectCalls(r) ==
    IF r = "NA"
    THEN UNION { { CollectCall(n, resps, rush_hours) :
                       resps \in [1..n -> IQAirResponsesNA],
                       rush_hours \in [1..n -> BOOLEAN] } : n \in 1..MaxCities }
    ELSE {}

Adapters == {"get_iqair_city_data", "get_iqair_data", "get_openaq_data",
             "get_tempo_iku_data"}

PureInit ==
    /\ region \in Regions
    /\ ProgramInit
    /\ fn_call \in RatingCalls(region) \cup AqiCalls \cup Pm25Calls \cup AdapterCalls(region)
                     \cup CollectCalls(region)
    \* the page is requested only after a non-200 answer of the Tempo API
    /\ (fn_call.fn = "get_tempo_iku_data" /\ fn_call.resp.kind # "http_error")
           => fn_call.page = NoPage
    /\ fn_ret = <<>>

CallHealthRating ==
    /\ fn_call.fn = "get_health_rating" /\ fn_ret = <<>>
    /\ fn_ret' = << get_health_rating(region, fn_call.pollutant, fn_call.a),
                    get_health_rating(region, fn_call.pollutant, fn_call.b) >>
    /\ UNCHANGED << region, threshold_table, pc, monitoring_active, run_count,
                    current_data, weather_data, heap, next_id, frame, cycle, complete,
                    fn_call >>

CallAqiToPm25 ==
    /\ fn_call.fn = "aqi_to_pm25" /\ fn_ret = <<>>
    /\ fn_ret' = << aqi_to_pm25(region, fn_call.a), aqi_to_pm25(region, fn_call.b) >>
    /\ UNCHANGED << region, threshold_table, pc, monitoring_active, run_count,
                    current_data, weather_data, heap, next_id, frame, cycle, complete,
                    fn_call >>

CallPm25Rating ==
    /\ fn_call.fn = "pm25_rating" /\ fn_ret = <<>>
    /\ fn_ret' = pm25_rating(region, fn_call.a)
    /\ UNCHANGED << region, threshold_table, pc, monitoring_active, run_count,
                    current_data, weather_data, heap, next_id, frame, cycle, complete,
                    fn_call >>

\* the adapter's return value, as the one element of fn_ret
CallAdapter ==
    /\ fn_call.fn \in Adapters /\ fn_ret = <<>>
    /\ fn_ret' = << CASE fn_call.fn = "get_iqair_city_data" ->
                            get_iqair_city_data(fn_call.resp, Cities[1])
                       [] fn_call.fn = "get_iqair_data" -> get_iqair_data(fn_call.resp)
                       [] fn_call.fn = "get_openaq_data" -> get_openaq_data(fn_call.resp)
                       [] fn_call.fn = "get_tempo_iku_data" ->
                            get_tempo_iku_data(fn_call.resp, fn_call.page) >>
    /\ UNCHANGED << region, threshold_table, pc, monitoring_active, run_count,
                    current_data, weather_data, heap, next_id, frame, cycle, complete,
                    fn_call >>

\* the list that collect_all_data returns, as the one element of fn_ret
CallCollect ==
    /\ fn_call.fn = "collect_all_data" /\ fn_ret = <<>>
    /\ fn_ret' = << collect_all_data(Take(north_america_cities, fn_call.a),
                                     fn_call.resps, fn_call.rush_hours) >>
    /\ UNCHANGED << region, threshold_table, pc, monitoring_active, run_count,
                    current_data, weather_data, heap, next_id, frame, cycle, complete,
                    fn_call >>

PureNext ==
    CallHealthRating \/ CallAqiToPm25 \/ CallPm25Rating \/ CallAdapter \/ CallCollect

PureSpec == PureInit /\ [][PureNext]_vars

----------------------------------------------------------------------------
(* The scheduling the programs rely on: a thread that can take a step      *)
(* eventually takes it (requests time out, sleeps end).  Ctrl+C is the     *)
(* user's choice and is not forced.                                        *)

\* a variant for requests made without `timeout=`: nothing obliges a
\* request to return
UpdateStep_requests_may_hang(t) ==
    \/ PerformUpdate(t) \/ CollectBegin(t) \/ DisplayResults(t) \/ SaveData(t)

UpdateStep(t) ==
    \/ PerformUpdate(t) \/ CollectBegin(t) \/ CallIQAir(t) \/ CallOpenAQ(t)
    \/ CallTempo(t) \/ GetWeather(t) \/ CityIQAir(t) \/ CityCO2(t)
    \/ CityWeather(t) \/ DisplayResults(t) \/ SaveData(t)

MainStep == UpdateStep("main") \/ StartThread \/ Exit

WorkerStep == UpdateStep("update_thread") \/ WorkerLoop \/ WorkerSleep \/ WorkerWake

FairSpec == Spec /\ WF_vars(MainStep) /\ WF_vars(WorkerStep)

----------------------------------------------------------------------------
(* Claims about get_health_rating and aqi_to_pm25 (PureSpec) *)

Called(fn) == fn_call.fn = fn /\ fn_ret # <<>>

KnownPollutant == fn_call.pollutant \in DOMAIN HEALTH_THRESHOLDS(region)

Bucket(th, value) ==
    IF value <= th.GOOD THEN "GOOD"
    ELSE IF value <= th.MODERATE THEN "MODERATE"
    ELSE IF value <= th.BAD THEN "UNHEALTHY"
    ELSE "VERY UNHEALTHY"

\* C1: for a pollutant of the table, get_health_rating returns GOOD when
\* value <= good_max, MODERATE when good_max < value <= moderate_max,
\* UNHEALTHY when moderate_max < value <= bad_max and VERY UNHEALTHY above
\* bad_max; a value equal to a boundary is in the lower bucket and the
\* smallest value above good_max is MODERATE.
C1_Buckets ==
    (Called("get_health_rating") /\ KnownPollutant) =>
        LET th == HEALTH_THRESHOLDS(region)[fn_call.pollutant]
            v == fn_call.a
            rating == fn_ret[1][1]
        IN  /\ (v <= th.GOOD) => rating = "GOOD"
            /\ (th.GOOD < v /\ v <= th.MODERATE) => rating = "MODERATE"
            /\ (th.MODERATE < v /\ v <= th.BAD) => rating = "UNHEALTHY"
            /\ (v > th.BAD) => rating = "VERY UNHEALTHY"
            /\ (v = th.GOOD + 1) => rating = "MODERATE"
            /\ fn_ret[2][1] = Bucket(th, fn_call.b)

\* a rated call whose first value is good_max and whose second is the next value up
C1_Witness ==
    /\ Called("get_health_rating") /\ KnownPollutant
    /\ fn_call.a = HEALTH_THRESHOLDS(region)[fn_call.pollutant].GOOD
    /\ fn_call.b = fn_call.a + 1
    /\ fn_ret[1][1] = "GOOD" /\ fn_ret[2][1] = "MODERATE"

Severity(rating) ==
    CASE rating = "GOOD" -> 0 [] rating = "MODERATE" -> 1
      [] rating = "UNHEALTHY" -> 2 [] rating = "VERY UNHEALTHY" -> 3

\* C8: for a pollutant of the table and values v1 <= v2, the rating of v1
\* is not more severe than the rating of v2, in the order
\* GOOD < MODERATE < UNHEALTHY < VERY UNHEALTHY.
C8_RatingMonotone ==
    (Called("get_health_rating") /\ KnownPollutant /\ fn_call.a <= fn_call.b) =>
        Severity(fn_ret[1][1]) <= Severity(fn_ret[2][1])

\* two values of one pollutant rated GOOD and VERY UNHEALTHY
C8_Witness ==
    /\ Called("get_health_rating") /\ KnownPollutant /\ fn_call.a < fn_call.b
    /\ fn_ret[1][1] = "GOOD" /\ fn_ret[2][1] = "VERY UNHEALTHY"

\* C9 as stated: for a pollutant that is not in the table the result is
\* the triple (UNKNOWN, "?", "No rating available").
C9_UnknownTriple ==
    (Called("get_health_rating") /\ ~KnownPollutant) =>
        fn_ret[1] = << "UNKNOWN", "?", "No rating available" >>

\* C9 amended: for a pollutant that is not in the table the result is the
\* triple (UNKNOWN, "[?]", "No rating available"), whatever the value.
C9_UnknownBracketed ==
    (Called("get_health_rating") /\ ~KnownPollutant) =>
        /\ fn_ret[1] = << "UNKNOWN", "[?]", "No rating available" >>
        /\ fn_ret[2] = << "UNKNOWN", "[?]", "No rating available" >>

\* a pollutant outside the table was rated at two different values
C9_Witness ==
    /\ Called("get_health_rating") /\ ~KnownPollutant
    /\ fn_call.a # fn_call.b
    /\ fn_ret[1][1] = "UNKNOWN"

\* the pairs (i, i + 1) of adjacent branches of aqi_to_pm25
AdjacentRows == 1..(Len(aqi_rows(region)) - 1)

\* C6 as stated: for adjacent segments, the concentration at the upper
\* index bound of a segment equals the concentration at the lower index
\* bound of the next one.
C6_Continuous ==
    Called("aqi_to_pm25") =>
        \A i \in AdjacentRows :
            (fn_call.a = aqi_rows(region)[i].upto /\ fn_call.b = aqi_rows(region)[i + 1].low)
                => fn_ret[1] = fn_ret[2]

\* C6 amended: in part_000 the next segment starts at the index where the
\* segment ends, and its expression there yields what aqi_to_pm25 yields at
\* the end of the segment; in final.py the next segment starts one index
\* higher (51, 101, 151) and aqi_to_pm25 is there exactly 0.1 above its
\* value at the end of the segment (50, 100, 150).
C6_ContinuousOrTenth ==
    Called("aqi_to_pm25") =>
        \A i \in AdjacentRows :
            LET rows == aqi_rows(region)
            IN  /\ (region = "ID" /\ fn_call.a = rows[i].upto) =>
                       /\ rows[i + 1].low = rows[i].upto
                       /\ fn_ret[1] = row_value(region, i + 1, rows[i + 1].low)
                /\ (region = "NA" /\ fn_call.a = rows[i].upto /\ fn_call.b = rows[i + 1].low) =>
                       /\ rows[i + 1].low = rows[i].upto + Num(1)
                       /\ fn_ret[2] = fn_ret[1] + Tenths(1)

\* final.py converted 50 and 51: 12.0 and 12.1
C6_Witness ==
    /\ Called("aqi_to_pm25") /\ region = "NA"
    /\ fn_call.a = Num(50) /\ fn_call.b = Num(51)
    /\ fn_ret = << Tenths(120), Tenths(121) >>

\* C7: for non-negative indices a <= b, integer or not,
\* aqi_to_pm25(a) <= aqi_to_pm25(b).
C7_AqiMonotone ==
    (Called("aqi_to_pm25") /\ 0 <= fn_call.a /\ fn_call.a <= fn_call.b) =>
        fn_ret[1] <= fn_ret[2]

----------------------------------------------------------------------------
(* Claims about the collection cycle and the scheduler (Spec, FairSpec) *)

\* the list that the collection of the cycle returned
CycleResult == complete.snap[complete.last]

\* C2 as stated: in a cycle where IQAir returned 2 or more measurements,
\* neither OpenAQ nor Tempo IKU is invoked.
C2_NoFallbackCalls ==
    (region = "ID" /\ cycle.primary >= 2) => cycle.invoked \cap {"OpenAQ", "Tempo"} = {}

\* C2 amended: in a cycle where IQAir returned 2 or more measurements,
\* Tempo IKU is not invoked; OpenAQ is invoked in every cycle, whatever
\* IQAir returned.
C2_NoTertiaryCall ==
    /\ cycle.primary >= 2 => "Tempo" \notin cycle.invoked
    /\ (region = "ID" /\ cycle.returned) => {"IQAir", "OpenAQ"} \subseteq cycle.invoked

\* part_000 finished a collection in which IQAir had returned 2 measurements
C2_Witness ==
    /\ region = "ID" /\ cycle.returned /\ cycle.primary >= 2
    /\ cycle.invoked = {"IQAir", "OpenAQ"}

\* C3: in a cycle where every request fails (timeout, status other than
\* 200, unparsable body), the collection returns an empty list.
C3_EmptyWhenAllFail ==
    (cycle.returned /\ cycle.all_failed) => CycleResult = <<>>

\* What such a cycle returns instead: in final.py the CO2 estimate of each
\* city, in part_000 the values scraped from the Tempo page, whose status
\* scrape_tempo_website does not look at.
OnlyDerived ==
    (cycle.returned /\ cycle.all_failed) =>
        IF region = "NA"
        THEN /\ Len(CycleResult) = Len(Cities)
             /\ \A i \in 1..Len(Cities) :
                    /\ CycleResult[i].pollutant = "CO2"
                    /\ CycleResult[i].city = Cities[i].city
        ELSE \A i \in 1..Len(CycleResult) : CycleResult[i].source = "Tempo.co IKU"

\* The scheduler half of C3, which the code keeps: unless Ctrl+C comes,
\* update number n, every request of which failed, is followed by update
\* number n + 1.
NextCycleRuns ==
    \A n \in 1..(MaxCycles - 1) :
        (cycle.n = n /\ cycle.returned /\ cycle.all_failed)
            ~> (run_count > n \/ ~monitoring_active \/ pc["main"] = "exited")

\* C4: a cycle of the update thread that is in progress when Ctrl+C clears
\* monitoring_active runs to its end before the process stops.
C4_CycleCompletes ==
    (pc["main"] = "exited" /\ ~monitoring_active) => pc["update_thread"] \notin CycleSteps

\* C5: current_data is at every moment the complete result of the previous
\* cycle or of the latest finished one, never a list that is being filled.
C5_AtomicPublish ==
    /\ current_data \in {complete.prev, complete.last}
    /\ current_data \in (DOMAIN heap) \cap (DOMAIN complete.snap)
    /\ heap[current_data] = complete.snap[current_data]
    /\ \A t \in Threads : pc[t] \in CollectSteps => frame[t].data # current_data

\* the update thread is filling a list while the previous result is published
C5_Witness ==
    /\ pc["update_thread"] \in CollectSteps
    /\ heap[frame["update_thread"].data] # <<>>
    /\ heap[current_data] # <<>>
    /\ heap[frame["update_thread"].data] # heap[current_data]

Ratings == {"GOOD", "MODERATE", "UNHEALTHY", "VERY UNHEALTHY", "UNKNOWN"}

\* C10: every measurement of every cycle result has a rating among GOOD,
\* MODERATE, UNHEALTHY, VERY UNHEALTHY, UNKNOWN, and it is the rating that
\* get_health_rating returns for its pollutant and value.
C10_RatingDerived ==
    \A id \in DOMAIN complete.snap :
        \A i \in 1..Len(complete.snap[id]) :
            LET m == complete.snap[id][i]
            IN  /\ m.rating \in Ratings
                /\ m.rating = get_health_rating(region, m.pollutant, m.value)[1]

\* every measurement of a list the program holds: << list, index >>
Measurements == UNION { {id} \X (1..Len(heap[id])) : id \in DOMAIN heap }

Measurement(m) == heap[m[1]][m[2]]

\* C11: two measurements of the running program with the same pollutant and
\* the same value have the same rating, indicator and description, whichever
\* adapter produced them and in whichever cycle.
C11_Deterministic ==
    \A m1 \in Measurements, m2 \in Measurements :
        (/\ Measurement(m1).pollutant = Measurement(m2).pollutant
         /\ Measurement(m1).value = Measurement(m2).value)
            => /\ Measurement(m1).rating = Measurement(m2).rating
               /\ Measurement(m1).indicator = Measurement(m2).indicator
               /\ Measurement(m1).description = Measurement(m2).description

\* in a cycle of the update thread, IQAir and OpenAQ reported the same value
\* of the same pollutant
C11_Witness ==
    /\ \E m1 \in Measurements, m2 \in Measurements :
          /\ m1[1] = m2[1]
          /\ Measurement(m1).pollutant = Measurement(m2).pollutant
          /\ Measurement(m1).value = Measurement(m2).value
          /\ Measurement(m1).source = "IQAir - Jakarta"
          /\ Measurement(m2).source = "OpenAQ: Unknown"
    /\ cycle.n >= 2 /\ cycle.thread = "update_thread"

----------------------------------------------------------------------------
(* Claims about the conversion followed by the rating (PureSpec) *)

\* C12: in final.py index 75 converts to 12.1 + (75 - 51) * (35.4 - 12.1) / 49,
\* which is 23.5 to one decimal, and that concentration is rated MODERATE
\* for PM2_5 (good_max 12.0, moderate_max 35.4).
C12_WorkedExample ==
    (region = "NA" /\ Called("pm25_rating") /\ fn_call.a = Num(75)) =>
        /\ fn_ret[1] = Tenths(121) + ((75 - 51) * (Tenths(354) - Tenths(121))) \div 49
        /\ Tenths(235) - Tenths(1) \div 2 <= fn_ret[1]
        /\ fn_ret[1] < Tenths(235) + Tenths(1) \div 2
        /\ HEALTH_THRESHOLDS(region)["PM2_5"].GOOD = Tenths(120)
        /\ HEALTH_THRESHOLDS(region)["PM2_5"].MODERATE = Tenths(354)
        /\ fn_ret[2][1] = "MODERATE"

\* final.py converted and rated index 75
C12_Witness ==
    /\ region = "NA" /\ Called("pm25_rating") /\ fn_call.a = Num(75)
    /\ fn_ret[2][1] = "MODERATE"

----------------------------------------------------------------------------
(* Claims about the adapters (PureSpec) *)

AdapterCalled == fn_call.fn \in Adapters /\ fn_ret # <<>>

\* C13: every adapter returns an empty list when the provider answers with
\* a status other than 200 or the request fails at transport level.
C13_FailureEmpty ==
    (AdapterCalled /\ fn_call.resp.kind \in {"timeout", "http_error"}) => fn_ret[1] = <<>>

\* C13 amended: the IQAir and OpenAQ adapters return an empty list on a
\* status other than 200 and on a transport failure; the Tempo adapter
\* returns an empty list on a transport failure of its API request, and on
\* a status other than 200 it returns what scrape_tempo_website returns,
\* which is empty when the page request fails at transport level.
C13_FailureContained ==
    AdapterCalled =>
        /\ (fn_call.fn # "get_tempo_iku_data"
                /\ fn_call.resp.kind \in {"timeout", "http_error"}) => fn_ret[1] = <<>>
        /\ (fn_call.fn = "get_tempo_iku_data" /\ fn_call.resp.kind = "timeout")
               => fn_ret[1] = <<>>
        /\ (fn_call.fn = "get_tempo_iku_data" /\ fn_call.resp.kind = "http_error")
               => /\ fn_ret[1] = scrape_tempo_website(fn_call.page)
                  /\ fn_call.page.kind = "timeout" => fn_ret[1] = <<>>

\* OpenAQ answered with a status other than 200 and a body that would have
\* yielded measurements
C13_Witness ==
    /\ AdapterCalled /\ fn_call.fn = "get_openaq_data"
    /\ fn_call.resp.kind = "http_error"
    /\ process_openaq_data(fn_call.resp.body) # <<>>
    /\ fn_ret[1] = <<>>

\* a field that is present and is not a number: the comparison raises
Unparsable(x) == Truthy(x) /\ CompareRaises(x)

\* The response has status 200 and a body of which an earlier field or
\* record maps into a measurement and a later one fails to parse.
PartialFailure ==
    /\ fn_call.resp.kind = "json"
    /\ LET d == fn_call.resp.body
       IN  CASE fn_call.fn \in {"get_iqair_city_data", "get_iqair_data"} ->
                    /\ d.has_current
                    /\ Get(d.aqius, JNum(0)).t = "num" /\ Get(d.aqius, JNum(0)).v > 0
                    /\ d.city # "" \/ fn_call.fn = "get_iqair_city_data"
                    /\ \E x \in {GetNone(d.o3), GetNone(d.no2)} : Unparsable(x)
             [] fn_call.fn = "get_openaq_data" ->
                    /\ d.has_results
                    /\ \E i \in 1..Len(Take(d.results, 5)) :
                          \E j \in 1..Len(d.results[i].measurements) :
                             /\ openaq_reading_raises(d.results[i].measurements[j])
                             /\ \E k \in 1..(j - 1) :
                                   /\ ~openaq_reading_raises(d.results[i].measurements[k])
                                   /\ openaq_reading("", d.results[i].measurements[k]) # <<>>
             [] fn_call.fn = "get_tempo_iku_data" ->
                    /\ d.is_list
                    /\ \E i \in 1..Len(Take(d.stations, 3)) :
                          /\ d.stations[i].has_pollutants
                          /\ \E j \in 1..Len(d.stations[i].pollutants) :
                                /\ tempo_pollutant_raises(d.stations[i].pollutants[j])
                                /\ \E k \in 1..(j - 1) :
                                      /\ ~tempo_pollutant_raises(d.stations[i].pollutants[k])
                                      /\ tempo_pollutant("", d.stations[i].pollutants[k]) # <<>>

\* C14: when a later field or record of a response fails to parse after
\* earlier ones were mapped into measurements, the adapter returns the
\* measurements already produced, not an empty list.
C14_PartialKept ==
    (AdapterCalled /\ PartialFailure) => fn_ret[1] # <<>>

\* final.py keeps them: process_iqair_response returns `results` after its
\* except branch
PartialKeptNA ==
    (AdapterCalled /\ PartialFailure /\ region = "NA") =>
        /\ fn_ret[1] # <<>>
        /\ \A i \in 1..Len(fn_ret[1]) : fn_ret[1][i].pollutant \in {"PM2_5", "O3"}

----------------------------------------------------------------------------
(* Claims about the measurements of the cycle results (Spec) *)

\* every measurement of a list that a collection returned: << list, index >>
ResultMeasurements ==
    UNION { {id} \X (1..Len(complete.snap[id])) : id \in DOMAIN complete.snap }

ResultMeasurement(m) == complete.snap[m[1]][m[2]]

\* C15: every measurement of every cycle result has a value that is not
\* negative, whatever the providers answered.
C15_NonNegative ==
    \A m \in ResultMeasurements : ResultMeasurement(m).value >= 0

\* C16: every measurement of every cycle result carries the unit that the
\* threshold table of the program defines for its pollutant, also when the
\* provider reported another unit for which there is no conversion.
C16_ProfileUnits ==
    \A m \in ResultMeasurements :
        /\ ResultMeasurement(m).pollutant \in DOMAIN HEALTH_THRESHOLDS(region)
        /\ ResultMeasurement(m).units
               = HEALTH_THRESHOLDS(region)[ResultMeasurement(m).pollutant].UNITS

----------------------------------------------------------------------------
(* Claims about the scheduler (FairSpec) *)

\* update number n ended in an error: every request of its collection
\* failed, or the display or the export raised
ErrorCycle(n) ==
    /\ cycle.n = n
    /\ cycle.error \/ (cycle.returned /\ cycle.all_failed)

Cancelled == ~monitoring_active \/ pc["main"] = "exited"

\* C17: unless cancellation is requested, a cycle that ended in an error is
\* followed by a further cycle, and the loop of the update thread ends only
\* after cancellation.
C17_LoopResilient ==
    /\ [](pc["update_thread"] = "returned" => ~monitoring_active)
    /\ \A n \in 1..(MaxCycles - 1) : ErrorCycle(n) ~> (run_count > n \/ Cancelled)

\* the second update, run by the update thread, raised in the display or
\* the export, and the thread is sleeping towards the third
C17_Witness ==
    /\ cycle.n = 2 /\ cycle.thread = "update_thread" /\ cycle.error
    /\ pc["update_thread"] = "sleep" /\ monitoring_active /\ Alive

\* the update thread is at a boundary of its loop: before the sleep, after
\* it, or past the loop
AtBoundary == pc["update_thread"] \in {"loop", "wake", "returned"}

\* The flag decides only at the boundaries: the loop is left only at its
\* head and with the flag cleared, and a cycle in progress takes its steps
\* with the flag cleared as with the flag set.
FlagReadAtBoundaries ==
    /\ (pc["update_thread"] # "returned" /\ pc'["update_thread"] = "returned")
           => (pc["update_thread"] = "loop" /\ ~monitoring_active)
    /\ (pc["update_thread"] \in CycleSteps
           /\ pc'["update_thread"] # pc["update_thread"] /\ pc'["main"] = pc["main"])
           => pc'["update_thread"] \in CycleSteps \cup {"loop"}

\* with the flag cleared and the update thread at a boundary, no cycle
\* starts, and the flag stays cleared
NoNewCycle ==
    ~monitoring_active =>
        /\ ~monitoring_active'
        /\ AtBoundary => (run_count' = run_count /\ pc'["update_thread"] \in
                             {"loop", "wake", "returned"})

\* C18: the flag is examined only before the sleep and after it; once the
\* update thread has seen it cleared no cycle starts; and after Ctrl+C has
\* cleared it the program reaches its end.
C18_CooperativeStop ==
    /\ [][FlagReadAtBoundaries]_vars
    /\ [][NoNewCycle]_vars
    /\ ~monitoring_active ~> (pc["main"] = "exited")

\* the update thread woke after Ctrl+C, saw the flag cleared at the head of
\* its loop and left the loop, before the program ended
C18_Witness ==
    /\ ~monitoring_active /\ pc["main"] = "stopping"
    /\ pc["update_thread"] = "returned"
    /\ run_count >= 2 /\ run_count < MaxCycles

----------------------------------------------------------------------------
(* Claims about the threshold tables (Spec) *)

\* C19: in the table of either program the boundaries of every pollutant
\* are strictly increasing, GOOD < MODERATE < BAD, and the table the program
\* holds is at every moment the one it loaded at start-up.
C19_TableIncreasing ==
    /\ threshold_table = load_thresholds(region)
    /\ \A p \in DOMAIN threshold_table :
          /\ threshold_table[p].GOOD < threshold_table[p].MODERATE
          /\ threshold_table[p].MODERATE < threshold_table[p].BAD

\* the program has run all its cycles, the last one by the update thread
\* with measurements rated and exported
C19_Witness ==
    /\ run_count = MaxCycles /\ cycle.thread = "update_thread" /\ cycle.exported
    /\ threshold_table = load_thresholds(region)
    /\ DOMAIN threshold_table # {}

----------------------------------------------------------------------------
(* Claims about the fields of the measurements (Spec) *)

CommonFields == {"pollutant", "value", "units", "source", "rating", "indicator",
                 "description"}

\* the measurement is the PM2_5 concentration that an IQAir index was
\* converted to
IndexDerived(m) ==
    /\ m.pollutant = "PM2_5"
    /\ m.source \in {"IQAir - Jakarta"}
           \cup { "IQAir - " \o Cities[i].city \o ", " \o Cities[i].country :
                      i \in 1..Len(Cities) }

\* C20: every measurement of every cycle result has exactly the fields
\* pollutant, value, units, source, rating, indicator, description and
\* timestamp, plus the raw index when and only when it is index-derived.
C20_StableFields ==
    \A m \in ResultMeasurements :
        DOMAIN ResultMeasurement(m)
            = CommonFields \cup {"timestamp"}
                  \cup (IF IndexDerived(ResultMeasurement(m)) THEN {"aqi"} ELSE {})

\* C20 amended: every measurement has the seven fields pollutant, value,
\* units, source, rating, indicator and description; in part_000 it has
\* type besides and no timestamp, in final.py it has city, country and
\* timestamp besides; the raw index aqi is there when and only when the
\* measurement is index-derived, and the CO2 estimate of final.py alone has
\* a note.
C20_FieldsPerProgram ==
    \A m \in ResultMeasurements :
        LET r == ResultMeasurement(m)
        IN  DOMAIN r
               = CommonFields
                    \cup (IF region = "ID" THEN {"type"}
                          ELSE {"city", "country", "timestamp"})
                    \cup (IF IndexDerived(r) THEN {"aqi"} ELSE {})
                    \cup (IF region = "NA" /\ r.pollutant = "CO2" THEN {"note"} ELSE {})

\* a cycle result of part_000 holds an index-derived measurement of IQAir
\* and a measurement of OpenAQ
C20_Witness ==
    \E m1 \in ResultMeasurements, m2 \in ResultMeasurements :
        /\ m1[1] = m2[1]
        /\ "aqi" \in DOMAIN ResultMeasurement(m1)
        /\ ResultMeasurement(m2).source = "OpenAQ: Jakarta Central"
        /\ "aqi" \notin DOMAIN ResultMeasurement(m2)

----------------------------------------------------------------------------
(* Claims about the order of the calls of a collection (Spec) *)

RECURSIVE Concat(_)
Concat(lists) == IF lists = <<>> THEN <<>> ELSE Head(lists) \o Concat(Tail(lists))

\* what the first k calls of the cycle returned, one after the other
Accumulated(k) == Concat([i \in 1..k |-> cycle.calls[i].returned])

CallOrder == [i \in 1..Len(cycle.calls) |-> cycle.calls[i].adapter]

PriorityOrder == << "IQAir", "OpenAQ", "Tempo" >>

\* C21: in every cycle of part_000 the next adapter in priority order is
\* invoked if and only if fewer than 2 measurements were accumulated from
\* the adapters already run, and the result is the concatenation, in
\* priority order, of what the invoked adapters returned.
C21_NextIffInsufficient ==
    (region = "ID" /\ cycle.returned) =>
        /\ \A k \in 1..2 :
              (Len(cycle.calls) > k) <=> (Len(cycle.calls) >= k /\ Len(Accumulated(k)) < 2)
        /\ CallOrder = SubSeq(PriorityOrder, 1, Len(cycle.calls))
        /\ CycleResult = Accumulated(Len(cycle.calls))

\* C21 amended: IQAir and OpenAQ are invoked in every cycle; Tempo IKU is
\* invoked if and only if IQAir and OpenAQ together returned fewer than 2
\* measurements; the result is the concatenation, in priority order, of
\* what the invoked adapters returned.
C21_TempoIffInsufficient ==
    (region = "ID" /\ cycle.returned) =>
        /\ Len(cycle.calls) >= 2
        /\ (Len(cycle.calls) > 2) <=> (Len(Accumulated(2)) < 2)
        /\ CallOrder = SubSeq(PriorityOrder, 1, Len(cycle.calls))
        /\ CycleResult = Accumulated(Len(cycle.calls))

\* IQAir returned nothing and OpenAQ one measurement, so Tempo IKU was
\* invoked and added its own
C21_Witness ==
    /\ region = "ID" /\ cycle.returned /\ Len(cycle.calls) = 3
    /\ cycle.calls[1].returned = <<>>
    /\ Len(cycle.calls[2].returned) = 1
    /\ cycle.calls[3].returned # <<>>
    /\ Len(CycleResult) = 1 + Len(cycle.calls[3].returned)

\* the calls that the thread at step `step` (and, in final.py, at city
\* number `city`) has behind it
CallsBefore(step, city) ==
    CASE step = "iqair" -> <<>>
      [] step = "openaq" -> << "IQAir" >>
      [] step = "tempo" -> << "IQAir", "OpenAQ" >>
      [] step = "city_iqair" ->
            [i \in 1..(2 * (city - 1)) |-> IF i % 2 = 1 THEN "IQAir" ELSE "CO2"]
      [] step = "city_co2" ->
            [i \in 1..(2 * (city - 1) + 1) |-> IF i % 2 = 1 THEN "IQAir" ELSE "CO2"]
      [] step = "city_weather" ->
            [i \in 1..(2 * city) |-> IF i % 2 = 1 THEN "IQAir" ELSE "CO2"]

\* C22: within one collection the adapters are called one at a time and in
\* the fixed order (IQAir, OpenAQ, Tempo IKU; in final.py IQAir and the CO2
\* estimate, city after city): when a call starts, the calls before it
\* have returned, and no second thread is inside a collection.
C22_OneAtATime ==
    /\ \A t \in Threads :
          pc[t] \in CollectSteps =>
              /\ cycle.thread = t
              /\ \A u \in Threads \ {t} : pc[u] \notin CollectSteps
              /\ CallOrder = CallsBefore(pc[t], frame[t].city)
    /\ (region = "ID" /\ cycle.returned) =>
           CallOrder = SubSeq(PriorityOrder, 1, Len(cycle.calls))

\* the update thread is about to call Tempo IKU, IQAir and OpenAQ having
\* returned in this order
C22_Witness ==
    /\ pc["update_thread"] = "tempo" /\ cycle.thread = "update_thread"
    /\ CallOrder = << "IQAir", "OpenAQ" >>

----------------------------------------------------------------------------
(* Claims about the state the two threads share (Spec) *)

\* a step of the update thread inside perform_update
BackgroundCycleStep ==
    /\ pc["update_thread"] \in CycleSteps
    /\ pc'["update_thread"] # pc["update_thread"]

\* C23: the cycle of the update thread writes no module global other than
\* the reference current_data: weather_data and run_count stay as they are
\* during the cycle.
C23_OnlyCurrentShared ==
    [][BackgroundCycleStep => (weather_data' = weather_data /\ run_count' = run_count)]_vars

\* what the cycle of the update thread does write: run_count once, at its
\* start, in both programs, and in final.py the dict weather_data, emptied
\* at the start of the collection and filled city by city
GlobalsWritten ==
    [][BackgroundCycleStep =>
          /\ run_count' # run_count <=> pc["update_thread"] = "perform_update"
          /\ weather_data' # weather_data =>
                 (region = "NA" /\ pc["update_thread"] \in {"collect", "city_weather"})
          /\ monitoring_active' = monitoring_active]_vars

\* the thread has published its list and holds it for the export
HoldsPublished(t) == pc[t] = "save"

\* C24: the published result is a copy, a list object other than the one
\* the cycle built and passes on to the display and the export.
C24_PublishedCopy ==
    \A t \in Threads :
        HoldsPublished(t) =>
            /\ frame[t].data # current_data
            /\ heap[frame[t].data] = heap[current_data]

\* C24 amended: the published result is the very list object that the
\* cycle built and passes on to the display and the export; nothing is
\* copied, and the list is as the collection returned it, the next cycle
\* filling a list of its own.
C24_PublishedAlias ==
    /\ \A t \in Threads :
          HoldsPublished(t) =>
              /\ frame[t].data = current_data
              /\ current_data = complete.last
              /\ heap[current_data] = complete.snap[current_data]
    /\ \A t \in Threads :
          pc[t] \in CollectSteps => frame[t].data # current_data

\* the update thread has published a list with measurements and is about
\* to export that same list
C24_Witness ==
    /\ HoldsPublished("update_thread")
    /\ frame["update_thread"].data = current_data
    /\ heap[current_data] # <<>>

----------------------------------------------------------------------------
(* Claims about the lookup of the pollutant names (PureSpec) *)

\* the response without the records whose pollutant name is not in the
\* adapter's poll_map (a record without the key 'parameter' has no name and
\* stays)
WithoutUnknown(fn, d) ==
    CASE fn = "get_openaq_data" /\ d.has_results ->
            [d EXCEPT !.results =
                [i \in 1..Len(d.results) |->
                    [d.results[i] EXCEPT !.measurements =
                        SelectSeq(@, LAMBDA m : m.parameter = ""
                                      \/ Upper(m.parameter) \in DOMAIN openaq_poll_map)]]]
      [] fn = "get_tempo_iku_data" /\ d.is_list ->
            [d EXCEPT !.stations =
                [i \in 1..Len(d.stations) |->
                    [d.stations[i] EXCEPT !.pollutants =
                        SelectSeq(@, LAMBDA m : Upper(m.name) \in DOMAIN tempo_poll_map)]]]
      [] OTHER -> d

HasUnknown == WithoutUnknown(fn_call.fn, fn_call.resp.body) # fn_call.resp.body

Processed(fn, d) ==
    IF fn = "get_openaq_data" THEN process_openaq_data(d) ELSE process_tempo_data(d)

\* C25: a record whose pollutant name is not in the lookup table is
\* dropped: the adapter returns what it returns for the response without
\* that record.
C25_UnknownDropped ==
    (AdapterCalled /\ fn_call.fn \in {"get_openaq_data", "get_tempo_iku_data"}
        /\ fn_call.resp.kind = "json") =>
        fn_ret[1] = Processed(fn_call.fn, WithoutUnknown(fn_call.fn, fn_call.resp.body))

\* every reading of the response has the key 'value'
ValuesPresent(fn, d) ==
    (fn = "get_openaq_data" /\ d.has_results) =>
        \A i \in 1..Len(d.results) :
            \A j \in 1..Len(d.results[i].measurements) :
                d.results[i].measurements[j].value.t # "absent"

\* process_tempo_data drops such a record whatever else it holds, and
\* process_openaq_data drops it when it has the key 'value'
DroppedWhenValuePresent ==
    (AdapterCalled /\ fn_call.fn \in {"get_openaq_data", "get_tempo_iku_data"}
        /\ fn_call.resp.kind = "json"
        /\ ValuesPresent(fn_call.fn, fn_call.resp.body)) =>
        fn_ret[1] = Processed(fn_call.fn, WithoutUnknown(fn_call.fn, fn_call.resp.body))

\* a response with such a record has been processed
UnknownProcessed ==
    /\ AdapterCalled
    /\ fn_call.fn \in {"get_openaq_data", "get_tempo_iku_data"}
    /\ fn_call.resp.kind = "json"
    /\ HasUnknown

----------------------------------------------------------------------------
(* Claims about the end of a cycle (FairSpec) *)

\* update number n is inside perform_update, past `run_count += 1`
InFlight(n) == cycle.n = n /\ pc[cycle.thread] \in CycleSteps \ {"perform_update"}

\* perform_update has returned from update number n
Finished(n) == cycle.n = n /\ pc[cycle.thread] \notin CycleSteps \ {"perform_update"}

\* the adapter calls one collection can make: IQAir, OpenAQ and Tempo IKU in
\* part_000, IQAir and the CO2 estimate for each city in final.py
CallsPerCycle == IF region = "ID" THEN 3 ELSE 2 * Len(Cities)

\* C26: a cycle makes a bounded number of adapter calls, and a cycle that
\* has started eventually ends, whatever the providers answer and also
\* when their requests time out: perform_update returns, or the process
\* itself has ended.
C26_CycleTerminates ==
    /\ [](Len(cycle.calls) <= CallsPerCycle)
    /\ \A n \in 1..MaxCycles : InFlight(n) ~> (Finished(n) \/ ~Alive)

\* a cycle of the update thread in which no request was answered with data
\* has made all its calls and returned, the program still running
C26_Witness ==
    /\ cycle.n >= 2 /\ cycle.thread = "update_thread" /\ Finished(cycle.n)
    /\ cycle.all_failed /\ Len(cycle.calls) = CallsPerCycle
    /\ Alive /\ monitoring_active

----------------------------------------------------------------------------
(* Claims about the numbering of the cycles (Spec) *)

\* thread t is inside perform_update
Updating(t) == pc[t] \in CycleSteps

\* at most one thread is inside perform_update; the update thread exists
\* only after the first update has returned on the main thread; the first
\* update is the main thread's and every later one the update thread's
OneCycleInFlight ==
    /\ ~(Updating("main") /\ Updating("update_thread"))
    /\ pc["update_thread"] # "not_started" => (run_count >= 1 /\ ~Updating("main"))
    /\ cycle.n = 1 => cycle.thread = "main"
    /\ cycle.n > 1 => cycle.thread = "update_thread"

\* run_count is the number of the cycle started last, and the number that
\* display_results shows is the cycle's own
CountsCycles ==
    /\ run_count = cycle.n
    /\ cycle.published => cycle.shown = cycle.n

\* run_count changes only where a cycle starts, and by one
CountedOnce ==
    /\ run_count' # run_count =>
           (run_count' = run_count + 1 /\ cycle'.n = run_count' /\ \E t \in Threads : PerformUpdate(t))
    /\ (\E t \in Threads : PerformUpdate(t)) => run_count' = run_count + 1

\* C27: at most one cycle is in flight, the first on the main thread before
\* the update thread is started and the later ones on the update thread,
\* and run_count is incremented once per cycle, so that the updates are
\* numbered 1, 2, 3, ... and shown under their own number.
C27_SingleCycle ==
    /\ [](OneCycleInFlight /\ CountsCycles)
    /\ [][CountedOnce]_vars

\* the update thread has shown its second update, the third of the program
C27_Witness ==
    /\ cycle.n = 3 /\ cycle.thread = "update_thread" /\ cycle.published
    /\ cycle.shown = 3 /\ run_count = 3 /\ pc["main"] = "wait"

----------------------------------------------------------------------------
(* Claims about the result of collect_all_data (PureSpec) *)

\* the positions of `result` that hold the CO2 estimate of `city`
EstimatesOf(result, city) ==
    { k \in 1..Len(result) : result[k].pollutant = "CO2" /\ result[k].city = city }

\* what collect_all_data returns when only the i-th city is configured and
\* gets the answer it got
CityAlone(i) ==
    collect_all_data(<< north_america_cities[i] >>, << fn_call.resps[i] >>,
                     << fn_call.rush_hours[i] >>)

\* C28: the list that final.py's collect_all_data returns holds exactly one
\* CO2 estimate per configured city, whatever IQAir answered for the city;
\* it is, city after city, what each city yields by itself, so that a
\* failure for one city neither removes what earlier cities gave nor keeps
\* later cities from being processed; and it is never empty.
C28_EstimatePerCity ==
    Called("collect_all_data") =>
        LET result == fn_ret[1]
            n == fn_call.a
        IN  /\ \A i \in 1..n :
                  Cardinality(EstimatesOf(result, north_america_cities[i].city)) = 1
            /\ Cardinality({ k \in 1..Len(result) : result[k].pollutant = "CO2" }) = n
            /\ result = Concat([i \in 1..n |-> CityAlone(i)])
            /\ result # <<>>

\* IQAir gave measurements for the first city and failed for the second:
\* the result holds the first city's measurements and both estimates
C28_Witness ==
    /\ Called("collect_all_data") /\ fn_call.a = 2
    /\ fn_call.resps[1].kind = "json" /\ Len(CityAlone(1)) >= 3
    /\ fn_call.resps[2].kind = "timeout" /\ Len(CityAlone(2)) = 1
    /\ Len(fn_ret[1]) = Len(CityAlone(1)) + 1
    /\ fn_ret[1][Len(fn_ret[1])].city = "Los Angeles"

\* the cycles of the running program: the list a collection of final.py
\* returned has one CO2 estimate for each configured city
EstimatePerCityInCycles ==
    (region = "NA" /\ cycle.returned) =>
        /\ \A i \in 1..Len(Cities) :
              Cardinality(EstimatesOf(CycleResult, Cities[i].city)) = 1
        /\ CycleResult # <<>>

====
